---------------------------- MODULE Spec2Model ----------------------------
(***************************************************************************)
(* The buffered line-protocol writer of the influxdb crate                 *)
(* (src/influxdb/src/write/buffered.rs): producers submit records through  *)
(* a bounded mpsc channel (Client::write_with), the background task        *)
(* buffered_write_task receives them, batches them and writes the batches  *)
(* to the sink (immediate::Client::write).                                 *)
(*                                                                         *)
(* A record is [id, nlines, nbytes]: id is its submission number (the      *)
(* order in which Client::write_with created it), nlines the number of     *)
(* '\n' bytes of its buffer, which is all the task ever reads of the       *)
(* bytes, nbytes its length (the task only traces it).  The watch cell     *)
(* that travels with the record is status[id].                             *)
(*                                                                         *)
(* The task only suspends at the select! (pc = "select") and at the sink   *)
(* write (pc = "write"), so one action is the code between two awaits.     *)
(* The `else` arm of the select! (lines 119-122) runs only when every      *)
(* other arm is disabled; both arms have irrefutable patterns and no       *)
(* guard, so it cannot run and is not an action.                           *)
(***************************************************************************)
EXTENDS Integers, Sequences, FiniteSets

\* Bounds of the model.
MaxRecords == 5      \* records the producers submit in one run
MaxRecLines == 2     \* a record holds 0..MaxRecLines lines
max_lines == 2       \* Options::max_lines of this run
channel_len == 2     \* Options::channel_len of this run
LiveRecords == 3     \* records submitted in a run of LiveSpec
ByteRecords == 3     \* records submitted in a run of ByteSpec
SmallRecord == 100   \* length in bytes of a short record
LargeRecord == 30000 \* length in bytes of a long record

\* util/mod.rs:28, the byte threshold of stdout_buffered_client.
ByteLimit == 30000

MaxTime == 2         \* device timestamps are 1..MaxTime (seconds)
MaxEnergy == 2       \* raw lifetime energy readings are 0..MaxEnergy
MaxMessages == 4     \* messages handled in a run of PlugSpec

\* smartplug.rs:154, the drift in milliseconds above which the machine
\* timestamp is used.
DriftLimit == 20000

MaxObservations == 4 \* counter readings fed to the normalizers in NormSpec
MaxDeviceOps == 4    \* operations on the TasmotaDevice in DeviceSpec
MaxRegMessages == 3  \* messages handled in a run of RegistrySpec
MaxNameLen == 2      \* device names are 0..MaxNameLen pieces long
MaxSkew == 4         \* drifts lie within MaxSkew ms of DriftLimit, or are 0
MaxMainSteps == 3    \* turns of the control loop of main in MainSpec

\* Seconds in an hour: fixup_timestamp (devices.rs:339-341) replaces the
\* hour of a timestamp.
HourLen == 3600

\* usize arithmetic is modulo 2^64 on the targets of this program; the
\* model keeps 16 bits of it, which TLC's integers can hold.
UsizeModulus == 65536

VARIABLES
    channel,        \* the mpsc queue between Client and the task
    open,           \* some Sender (Client) is still alive
    nsub,           \* records submitted so far
    sending,        \* <<record>> of the write_with call suspended in send()
    wres,           \* what the latest write_with call returned
    status,         \* the watch cell of each record
    sink_ok,        \* the sink answers 204 at present
    pc,             \* where the task is: "select", "write", "done"
    ret,            \* the task's return value, "none" while it runs
    shutdown,       \* local `shutdown`
    lines,          \* local `lines`
    buffers,        \* local `buffers`
    in_progress,    \* local `in_progress` of the flush under way
    total_lines,    \* local `total_lines` of the flush under way
    trigger,        \* the select! arm that ran last
    in_flight,      \* sink writes issued and not yet returned
    delivered,      \* records of the successful sink writes, in write order
    last_failed,    \* batch of the latest sink write if it failed, else <<>>
    ever_failed,    \* some sink write has failed
    final_writes    \* sink writes issued after the channel was seen closed

wvars == <<channel, open, nsub, sending, wres, status, sink_ok, pc, ret, shutdown, lines,
          buffers, in_progress, total_lines, trigger, in_flight, delivered,
          last_failed, ever_failed, final_writes>>

\* One smart plug (smartplugs/smartplug.rs) and what its handler did.
VARIABLES
    raw_telemetry,  \* timestamp -> (sns, sts), each <<>> (None) or <<value>>
    lwt,            \* <<>> or <<payload>>
    last_energy,    \* <<>> or <<raw lifetime energy of the last stored sns>>
    energy_offset,
    log             \* history: one entry per handled message

pvars == <<raw_telemetry, lwt, last_energy, energy_offset, log>>

\* The pulse meter's normalizer, held by the control loop of main.rs.
VARIABLES
    impulse_context, \* <<>> (None) or <<[previous_count, offset]>>
    impulse_log      \* history: one entry per impulse record written

ivars == <<impulse_context, impulse_log>>

\* One TasmotaDevice (devices.rs).
VARIABLES
    telemetry_buffer,          \* timestamp -> MaybeTelemetry [sns, sts]
    telemetry,                 \* timestamp -> promoted telemetry
    reported_energy_lifetime,  \* <<>> or <<last raw lifetime energy>>
    energy_lifetime_offset,
    power_state,               \* <<>> or <<state of the last sts>>
    now,                       \* OffsetDateTime::now_utc(), in seconds
    device_log                 \* history: one entry per operation

dvars == <<telemetry_buffer, telemetry, reported_energy_lifetime,
          energy_lifetime_offset, power_state, now, device_log>>

\* SmartPlugSwarm (smartplugs/mod.rs).
VARIABLES
    smartplugs,     \* name -> SmartPlug
    telemetry_map,  \* topic -> name
    swarm_log       \* history: one entry per handled message

rvars == <<smartplugs, telemetry_map, swarm_log>>

\* The topic scheme (smartplugs/topic.rs) applied to one device name.
VARIABLES
    device_name,    \* the name given to the generators
    generated,      \* which generator ran: "none", "Sensor", "State", "Lwt"
    topic_text,     \* the topic it returned, <<>> before
    classified,     \* <<>> or <<result of telemetry_type(topic_text)>>
    extracted       \* <<>> or <<result of extract_device_name(topic_text)>>

tvars == <<device_name, generated, topic_text, classified, extracted>>

\* One call of SmartPlug::generate_telemetry, times in milliseconds.
VARIABLES
    machine_ms,     \* millis_from_datetime(odt)
    device_ms,      \* millis_from_datetime(state.time)
    picked          \* <<>> or <<timestamp of the returned Telemetry>>

gvars == <<machine_ms, device_ms, picked>>

\* The control loop of main (main.rs:101-143).
VARIABLES
    main_pc,        \* "loop", "stopped" (break) or "failed" (`?` returned)
    writer_task,    \* "running" or "stopped": the task holding the Receiver
    main_log        \* history: one entry per turn of the loop

mvars == <<main_pc, writer_task, main_log>>

fvars == <<tvars, gvars, mvars>>

xvars == <<ivars, dvars, rvars, fvars>>

vars == <<wvars, pvars, xvars>>

Ids == 1..MaxRecords

\* ---------------------------------------------------------------- helpers

Range(s) == {s[i] : i \in DOMAIN s}

IdsOf(s) == {s[i].id : i \in DOMAIN s}

IdSeq(s) == [i \in DOMAIN s |-> s[i].id]

RECURSIVE SumLines(_)
SumLines(s) == IF s = <<>> THEN 0 ELSE Head(s).nlines + SumLines(Tail(s))

RECURSIVE SumBytes(_)
SumBytes(s) == IF s = <<>> THEN 0 ELSE Head(s).nbytes + SumBytes(Tail(s))

IsPrefix(s, t) == Len(s) <= Len(t) /\ SubSeq(t, 1, Len(s)) = s

Reverse(s) == [i \in DOMAIN s |-> s[Len(s) + 1 - i]]

\* enum Status, in declaration order; "None" is a cell not yet created.
StatusRank(st) ==
    CASE st = "None" -> 0
      [] st = "Init" -> 1
      [] st = "Buffered" -> 2
      [] st = "Accepted" -> 3

\* ------------------------------------------------------------ the task

\* `while !shutdown { select! {` : the task polls the select! only when it is
\* not awaiting the sink write.
AtSelectOverlapped == pc \in {"select", "write"}
AtSelect == pc = "select"

\* biased select!: recv() is polled first and yields a message when one is
\* queued, None when the queue is empty and every Sender is gone.
RecvReady == channel # <<>> \/ ~open

\* The number of records the `while let Some(..) = buffers.pop_front()` loop
\* moves to in_progress: it stops after the record that brings total_lines
\* to max_lines, or when buffers is empty.
RECURSIVE PopCount(_, _, _)
PopCountOne(bufs, i, tot) == IF bufs = <<>> THEN 0 ELSE 1
PopCount(bufs, i, tot) ==
    IF i = Len(bufs) THEN i
    ELSE IF tot + bufs[i + 1].nlines >= max_lines THEN i + 1
    ELSE PopCount(bufs, i + 1, tot + bufs[i + 1].nlines)

\* Flush decision of the three arms.
RecvFlushStrict(n) == n > max_lines
RecvFlush(n) == n >= max_lines

TickFlush(bufs) == bufs # <<>>

ClosedFlush(bufs) == TRUE

\* Err arm: `for value in in_progress { buffers.push_front(value) }`.
\* Each push_front puts the next record of the batch ahead of the previous
\* one, so the batch ends up reversed at the front.
RequeueDropLast(batch, bufs) == Reverse(SubSeq(batch, 1, Len(batch) - 1)) \o bufs
Requeue(batch, bufs) == Reverse(batch) \o bufs

\* Ok arm: `status.send_replace(Status::Accepted)` for each record of the batch.
AcceptSkipFirst(st, batch) ==
    [r \in Ids |-> IF r \in IdsOf(SubSeq(batch, 2, Len(batch))) THEN "Accepted" ELSE st[r]]
AcceptAll(st, batch) ==
    [r \in Ids |-> IF r \in IdsOf(batch) THEN "Accepted" ELSE st[r]]

\* Err arm: no status cell is written.
StatusAfterErrReset(st, batch) ==
    [r \in Ids |-> IF r \in IdsOf(batch) THEN "Init" ELSE st[r]]
StatusAfterErr(st, batch) == st

\* Ok arm: `lines -= total_lines`; Err arm: lines is not written.
LinesAfterErrSubtract(n, tot) == n - tot
LinesAfterErr(n, tot) == n

\* `while !shutdown`: the loop is left once shutdown is set, whatever the
\* write returned.
NextPcRetryOnError(sd, ok) == IF sd /\ ok THEN "done" ELSE "select"
NextPcQuitOnError(sd, ok) == IF sd \/ ~ok THEN "done" ELSE "select"
NextPc(sd, ok) == IF sd THEN "done" ELSE "select"

\* Lines 125-143: what follows the select! in the same poll.  With flush set
\* the batch is popped from bufs and the sink write is issued; otherwise the
\* loop condition is tested again.
AfterSelect(flush, bufs, sd) ==
    IF flush
    THEN LET k == PopCount(bufs, 0, 0) IN
         /\ in_progress' = SubSeq(bufs, 1, k)
         /\ buffers' = SubSeq(bufs, k + 1, Len(bufs))
         /\ total_lines' = SumLines(SubSeq(bufs, 1, k))
         /\ pc' = "write"
         /\ ret' = ret
         /\ in_flight' = in_flight + 1
         /\ final_writes' = IF sd THEN final_writes + 1 ELSE final_writes
    ELSE /\ in_progress' = <<>>
         /\ buffers' = bufs
         /\ total_lines' = 0
         /\ pc' = NextPc(sd, TRUE)
         /\ ret' = IF NextPc(sd, TRUE) = "done" THEN "Ok" ELSE ret
         /\ in_flight' = in_flight
         /\ final_writes' = final_writes

\* ------------------------------------------------------------- actions

\* mpsc::channel(options.channel_len): send() completes only while fewer
\* than channel_len records are queued.
HasCapacityUnbounded(ch) == TRUE
HasCapacity(ch) == Len(ch) < channel_len

\* The Receiver lives in the task and is dropped when the task returns.
ReceiverAlive == pc # "done"

\* Client::write_with, lines 50-65: the record is built, a fresh watch cell
\* is created at Init, then send().await: it fails once the Receiver is
\* gone (BufferedWriteError, the record and its cell are dropped), enqueues
\* when the queue has room and otherwise suspends the caller.  The callers
\* are the steps of the one control loop of main, so one call is under way
\* at a time.
SubmitWith(limit, sizes) ==
    /\ open
    /\ sending = <<>>
    /\ nsub < limit
    /\ IF ~ReceiverAlive
       THEN /\ wres' = "Err"
            /\ UNCHANGED <<channel, nsub, status, sending>>
       ELSE \E n \in 0..MaxRecLines, b \in sizes :
              LET rec == [id |-> nsub + 1, nlines |-> n,
                          nbytes |-> IF n = 0 THEN 0 ELSE b]
              IN /\ nsub' = nsub + 1
                 /\ status' = [status EXCEPT ![nsub + 1] = "Init"]
                 /\ IF HasCapacity(channel)
                    THEN /\ channel' = Append(channel, rec)
                         /\ sending' = <<>>
                         /\ wres' = "Ok"
                    ELSE /\ channel' = channel
                         /\ sending' = <<rec>>
                         /\ wres' = "pending"
    /\ UNCHANGED <<open, sink_ok, pc, ret, shutdown, lines, buffers,
                   in_progress, total_lines, trigger, in_flight, delivered,
                   last_failed, ever_failed, final_writes>>
    /\ UNCHANGED <<pvars, xvars>>

Submit == SubmitWith(MaxRecords, {SmallRecord})

\* The suspended send() completes: the queue has room again, or the
\* Receiver is gone.
SendResume ==
    /\ sending # <<>>
    /\ IF ~ReceiverAlive
       THEN /\ wres' = "Err"
            /\ sending' = <<>>
            /\ channel' = channel
       ELSE /\ HasCapacity(channel)
            /\ channel' = Append(channel, sending[1])
            /\ sending' = <<>>
            /\ wres' = "Ok"
    /\ UNCHANGED <<open, nsub, status, sink_ok, pc, ret, shutdown, lines,
                   buffers, in_progress, total_lines, trigger, in_flight,
                   delivered, last_failed, ever_failed, final_writes>>
    /\ UNCHANGED <<pvars, xvars>>

\* Every Client is dropped (main.rs: drop(swarm); drop(writer)), which the
\* control loop does only once it has left the loop, no call under way.
Close ==
    /\ open
    /\ sending = <<>>
    /\ open' = FALSE
    /\ UNCHANGED <<channel, nsub, sending, wres, status, sink_ok, pc, ret, shutdown, lines,
                   buffers, in_progress, total_lines, trigger, in_flight,
                   delivered, last_failed, ever_failed, final_writes>>
    /\ UNCHANGED <<pvars, xvars>>

\* The sink becomes unavailable, or available again.
SinkFlip ==
    /\ sink_ok' = ~sink_ok
    /\ UNCHANGED <<channel, open, nsub, sending, wres, status, pc, ret, shutdown, lines,
                   buffers, in_progress, total_lines, trigger, in_flight,
                   delivered, last_failed, ever_failed, final_writes>>
    /\ UNCHANGED <<pvars, xvars>>

\* select! arm `Some((buffer, status))`, lines 92-108.
RecvMessage ==
    /\ AtSelect
    /\ channel # <<>>
    /\ LET m == Head(channel) IN
       /\ channel' = Tail(channel)
       /\ lines' = lines + m.nlines
       /\ status' = [status EXCEPT ![m.id] = "Buffered"]
       /\ trigger' = "recv"
       /\ AfterSelect(RecvFlush(lines + m.nlines), Append(buffers, m), shutdown)
    /\ UNCHANGED <<open, nsub, sending, wres, sink_ok, shutdown, delivered,
                   last_failed, ever_failed>>
    /\ UNCHANGED <<pvars, xvars>>

\* select! arm `None`, lines 109-113.
RecvClosed ==
    /\ AtSelect
    /\ channel = <<>>
    /\ ~open
    /\ shutdown' = TRUE
    /\ trigger' = "closed"
    /\ AfterSelect(ClosedFlush(buffers), buffers, TRUE)
    /\ UNCHANGED <<channel, open, nsub, sending, wres, status, sink_ok,
                   lines, delivered, last_failed, ever_failed>>
    /\ UNCHANGED <<pvars, xvars>>

\* select! arm `flush_interval.tick()`, lines 116-118: polled only when
\* recv() is pending.
Tick ==
    /\ AtSelect
    /\ ~RecvReady
    /\ trigger' = "tick"
    /\ AfterSelect(TickFlush(buffers), buffers, shutdown)
    /\ UNCHANGED <<channel, open, nsub, sending, wres, status, sink_ok,
                   shutdown, lines, delivered, last_failed, ever_failed>>
    /\ UNCHANGED <<pvars, xvars>>

\* client.write(..) returned Ok, lines 144-154.
WriteOk ==
    /\ pc = "write"
    /\ sink_ok
    /\ lines' = lines - total_lines
    /\ status' = AcceptAll(status, in_progress)
    /\ delivered' = delivered \o IdSeq(in_progress)
    /\ last_failed' = <<>>
    /\ in_progress' = <<>>
    /\ total_lines' = 0
    /\ in_flight' = in_flight - 1
    /\ pc' = NextPc(shutdown, TRUE)
    /\ ret' = IF NextPc(shutdown, TRUE) = "done" THEN "Ok" ELSE ret
    /\ UNCHANGED <<channel, open, nsub, sending, wres, sink_ok, shutdown,
                   buffers, trigger, ever_failed, final_writes>>
    /\ UNCHANGED <<pvars, xvars>>

\* client.write(..) returned Err, lines 155-160.
WriteErr ==
    /\ pc = "write"
    /\ ~sink_ok
    /\ buffers' = Requeue(in_progress, buffers)
    /\ status' = StatusAfterErr(status, in_progress)
    /\ lines' = LinesAfterErr(lines, total_lines)
    /\ last_failed' = IdSeq(in_progress)
    /\ ever_failed' = TRUE
    /\ in_progress' = <<>>
    /\ total_lines' = 0
    /\ in_flight' = in_flight - 1
    /\ pc' = NextPc(shutdown, FALSE)
    /\ ret' = IF NextPc(shutdown, FALSE) = "done" THEN "Ok" ELSE ret
    /\ UNCHANGED <<channel, open, nsub, sending, wres, sink_ok, shutdown,
                   trigger, delivered, final_writes>>
    /\ UNCHANGED <<pvars, xvars>>

\* Everything but the inputs of the pure functions, which the runs that
\* apply them draw from sets.
BaseInit ==
    /\ channel = <<>>
    /\ open = TRUE
    /\ nsub = 0
    /\ sending = <<>>
    /\ wres = "none"
    /\ raw_telemetry = [t \in 1..MaxTime |-> [sns |-> <<>>, sts |-> <<>>]]
    /\ lwt = <<>>
    /\ last_energy = <<>>
    /\ energy_offset = 0
    /\ log = <<>>
    /\ status = [r \in Ids |-> "None"]
    /\ sink_ok \in BOOLEAN
    /\ pc = "select"
    /\ ret = "none"
    /\ shutdown = FALSE
    /\ lines = 0
    /\ buffers = <<>>
    /\ in_progress = <<>>
    /\ total_lines = 0
    /\ trigger = "none"
    /\ in_flight = 0
    /\ delivered = <<>>
    /\ last_failed = <<>>
    /\ ever_failed = FALSE
    /\ final_writes = 0
    /\ impulse_context = <<>>
    /\ impulse_log = <<>>
    /\ telemetry_buffer = <<>>
    /\ telemetry = <<>>
    /\ reported_energy_lifetime = <<>>
    /\ energy_lifetime_offset = 0
    /\ power_state = <<>>
    /\ now = 0
    /\ device_log = <<>>
    /\ smartplugs = <<>>
    /\ telemetry_map = <<>>
    /\ swarm_log = <<>>

TopicIdle ==
    /\ device_name = <<>>
    /\ generated = "none"
    /\ topic_text = <<>>
    /\ classified = <<>>
    /\ extracted = <<>>

DriftIdle ==
    /\ machine_ms = 0
    /\ device_ms = 0
    /\ picked = <<>>

MainIdle ==
    /\ main_pc = "loop"
    /\ writer_task = "running"
    /\ main_log = <<>>

Init == BaseInit /\ TopicIdle /\ DriftIdle /\ MainIdle

Next ==
    \/ Submit
    \/ SendResume
    \/ Close
    \/ SinkFlip
    \/ RecvMessage
    \/ RecvClosed
    \/ Tick
    \/ WriteOk
    \/ WriteErr

Spec == Init /\ [][Next]_vars

\* The task is scheduled whenever it can run, the interval timer keeps
\* ticking and the sink write returns, with Ok or Err.
Fairness ==
    /\ WF_vars(SendResume)
    /\ WF_vars(RecvMessage)
    /\ WF_vars(RecvClosed)
    /\ WF_vars(Tick)
    /\ WF_vars(WriteOk \/ WriteErr)

\* The runs checked for liveness submit fewer records.
LiveSubmit == SubmitWith(LiveRecords, {SmallRecord})

LiveNext ==
    \/ LiveSubmit
    \/ SendResume
    \/ Close
    \/ SinkFlip
    \/ RecvMessage
    \/ RecvClosed
    \/ Tick
    \/ WriteOk
    \/ WriteErr

LiveSpec == Init /\ [][LiveNext]_vars /\ Fairness

\* Runs in which the records differ in length.
ByteSubmit == SubmitWith(ByteRecords, {SmallRecord, LargeRecord})

ByteNext ==
    \/ ByteSubmit
    \/ SendResume
    \/ Close
    \/ SinkFlip
    \/ RecvMessage
    \/ RecvClosed
    \/ Tick
    \/ WriteOk
    \/ WriteErr

ByteSpec == Init /\ [][ByteNext]_vars

\* ------------------------------------------------------ the smart plug
(***************************************************************************)
(* SmartPlug (smartplugs/smartplug.rs) as SmartPlugSwarm::handle_telemetry *)
(* (smartplugs/mod.rs) drives it, for one registered plug and messages on  *)
(* its three telemetry topics.  Timestamps are whole seconds, energy is in *)
(* whole kWh; a sensor fragment is known by its lifetime energy, a state   *)
(* fragment by its own time field.  The completed record is handed to      *)
(* Client::write_with, whose behaviour is that of Submit above; here the   *)
(* hand-off is written to the log.                                         *)
(***************************************************************************)

Times == 1..MaxTime
Energies == 0..MaxEnergy

Max(S) == CHOOSE x \in S : \A y \in S : y <= x
Min(S) == CHOOSE x \in S : \A y \in S : x <= y
Abs(x) == IF x < 0 THEN -x ELSE x

\* An absent key of the BTreeMap.
NoEntry == [sns |-> <<>>, sts |-> <<>>]

Keys(raw) == {t \in Times : raw[t] # NoEntry}

\* append_sensor_telemetry, lines 85-92: the fragment is dropped when the
\* last (greatest) key of raw_telemetry is later than its timestamp.
Discards(raw, t) == Keys(raw) # {} /\ Max(Keys(raw)) > t

\* Lines 94-104: the first reading becomes the offset; a reading below the
\* last one makes the last one (`value`) the offset.
OffsetAfter(last, off, e) ==
    IF last = <<>> THEN e ELSE IF e < last[1] THEN last[1] ELSE off

\* Line 105, which the early return of line 90 skips.
LastEnergyAlways(discard, last, e) == <<e>>
LastEnergyOnAppend(discard, last, e) == IF discard THEN last ELSE <<e>>

\* Lines 107-108 and 116-117: entry(timestamp).or_default(), then the slot
\* of the fragment's kind is replaced.
SnsStored(raw, t, e) == [raw EXCEPT ![t].sns = <<e>>]
StsStoredFresh(raw, t) == [raw EXCEPT ![t] = [sns |-> <<>>, sts |-> <<t>>]]
StsStored(raw, t) == [raw EXCEPT ![t].sts = <<t>>]

\* first_matched_telemetry: the keys holding both fragments, of which the
\* first is removed and returned.
Matched(raw) == {t \in Times : raw[t].sns # <<>> /\ raw[t].sts # <<>>}
RemoveKeyKeepsEntry(raw, t) == raw
RemoveKey(raw, t) == [raw EXCEPT ![t] = NoEntry]

\* generate_telemetry: energy in Wh above the offset as it is now, and the
\* timestamp in milliseconds, the state fragment's unless it is more than
\* DriftLimit away from odt.
PickTimestampInclusive(machine_timestamp, device_timestamp) ==
    IF Abs(machine_timestamp - device_timestamp) >= DriftLimit
    THEN machine_timestamp ELSE device_timestamp
PickTimestamp(machine_timestamp, device_timestamp) ==
    LET drift == Abs(machine_timestamp - device_timestamp)
    IN IF drift > DriftLimit THEN machine_timestamp ELSE device_timestamp

generate_telemetry(odt, e, st, off) ==
    [key |-> odt,
     energy |-> (e - off) * 1000,
     timestamp |-> PickTimestamp(odt * 1000, st * 1000)]

\* handle_telemetry, lines 104-134: matched_telemetry() is called once,
\* whatever the message was; a matched pair is removed, turned into a
\* record with odt = its key and handed to write_with.
AfterAppend(raw, off, entry) ==
    IF Matched(raw) = {}
    THEN /\ raw_telemetry' = raw
         /\ log' = Append(log, entry)
    ELSE LET t == Min(Matched(raw))
             rec == generate_telemetry(t, raw[t].sns[1], raw[t].sts[1], off)
         IN /\ raw_telemetry' = RemoveKey(raw, t)
            /\ log' = Append(log, [entry EXCEPT !.emit = <<rec>>])

\* parse_json_payload / bytes_to_string failed: `?` returns the error
\* before the plug is touched.
Malformed(kind) ==
    /\ log' = Append(log, [kind |-> kind, time |-> 0, energy |-> 0,
                           outcome |-> "malformed", norm |-> 0,
                           emit |-> <<>>, ret |-> "Err"])
    /\ UNCHANGED <<raw_telemetry, lwt, last_energy, energy_offset>>

\* A well-formed sensor fragment with timestamp t and lifetime energy e:
\* append_sensor_telemetry, then the rest of handle_telemetry.
SensorFragment(t, e) ==
    LET discard == Discards(raw_telemetry, t)
        off == IF discard THEN energy_offset
               ELSE OffsetAfter(last_energy, energy_offset, e)
        raw == IF discard THEN raw_telemetry
               ELSE SnsStored(raw_telemetry, t, e)
    IN /\ energy_offset' = off
       /\ last_energy' = LastEnergyOnAppend(discard, last_energy, e)
       /\ lwt' = lwt
       /\ AfterAppend(raw, off,
             [kind |-> "Sensor", time |-> t, energy |-> e,
              outcome |-> IF discard THEN "discarded" ELSE "stored",
              norm |-> e - off, emit |-> <<>>, ret |-> "Ok"])

\* A message on the SENSOR topic.
\* A well-formed status fragment with timestamp t: append_state_telemetry,
\* then the rest of handle_telemetry.
StateFragment(t) ==
    /\ UNCHANGED <<lwt, last_energy, energy_offset>>
    /\ AfterAppend(StsStored(raw_telemetry, t), energy_offset,
          [kind |-> "State", time |-> t, energy |-> 0,
           outcome |-> "stored", norm |-> 0, emit |-> <<>>,
           ret |-> "Ok"])

\* A last-will payload: set_lwt, then the rest of handle_telemetry.
LwtMessage(payload) ==
    /\ lwt' = <<payload>>
    /\ UNCHANGED <<last_energy, energy_offset>>
    /\ AfterAppend(raw_telemetry, energy_offset,
          [kind |-> "Lwt", time |-> 0, energy |-> 0,
           outcome |-> "lwt", norm |-> 0, emit |-> <<>>,
           ret |-> "Ok"])

HandleSensor ==
    /\ Len(log) < MaxMessages
    /\ \/ Malformed("Sensor")
       \/ \E t \in Times, e \in Energies : SensorFragment(t, e)
    /\ UNCHANGED <<wvars, xvars>>

\* A message on the STATE topic.
HandleState ==
    /\ Len(log) < MaxMessages
    /\ \/ Malformed("State")
       \/ \E t \in Times : StateFragment(t)
    /\ UNCHANGED <<wvars, xvars>>

\* A message on the LWT topic.
HandleLwt ==
    /\ Len(log) < MaxMessages
    /\ \/ Malformed("Lwt")
       \/ \E payload \in {"Online", "Offline"} : LwtMessage(payload)
    /\ UNCHANGED <<wvars, xvars>>

PlugInit == Init /\ sink_ok

PlugNext ==
    \/ HandleSensor
    \/ HandleState
    \/ HandleLwt

PlugSpec == PlugInit /\ [][PlugNext]_vars

\* ----------------------------------------------------- the pulse meter
(***************************************************************************)
(* The impulse arm of the control loop (main.rs:104-130) for a payload     *)
(* that parsed; a payload that does not parse is logged and the loop goes  *)
(* on with nothing changed.  The record goes to write_with; the energy     *)
(* field it carries is kept in impulse_log.                                *)
(***************************************************************************)

\* Lines 114-117: get_or_insert_with(with_initial_count(count)).
ContextFor(ctx, count) ==
    IF ctx = <<>> THEN [previous_count |-> count, offset |-> count]
    ELSE ctx[1]

\* Lines 119-122: a count below the previous one makes the previous count
\* the offset.
ImpulseOffsetAlways(count, previous_count, offset) == previous_count
ImpulseOffset(count, previous_count, offset) ==
    IF count < previous_count THEN previous_count ELSE offset

\* impulse.rs:43, the energy field.
ImpulseEnergy(count, offset) == count - offset + 1

ImpulseMessage(count) ==
    LET ctx == ContextFor(impulse_context, count)
        off == ImpulseOffset(count, ctx.previous_count, ctx.offset)
    IN /\ impulse_log' = Append(impulse_log,
             [count |-> count, offset |-> off,
              energy |-> ImpulseEnergy(count, off)])
       /\ impulse_context' = <<[previous_count |-> count, offset |-> off]>>

\* ------------------------------------------------- the TasmotaDevice
(***************************************************************************)
(* TasmotaDevice (devices.rs:141-325): its two update methods and the      *)
(* sweep of the telemetry buffer.  Times are seconds within one day, so    *)
(* the hour of t is t \div HourLen.  The maps are functions whose domain   *)
(* is the set of keys present.                                             *)
(***************************************************************************)

Put(map, k, v) == [x \in DOMAIN map \cup {k} |-> IF x = k THEN v ELSE map[x]]
Without(map, K) == [x \in DOMAIN map \ K |-> map[x]]
EntryOf(map, k) == IF k \in DOMAIN map THEN map[k] ELSE NoEntry

\* Device time fields, clock readings, readings and sweep ages of a run.
DeviceTimes == {h * HourLen + sec : h \in 0..1, sec \in {1, MaxTime}}
ClockValues == {h * HourLen + sec : h \in 0..1, sec \in {0, MaxTime}}
DeviceEnergies == {0, MaxEnergy}
Ages == {0, MaxTime, HourLen}

\* fixup_timestamp: the date, minute and second of value with the hour of
\* reference.
fixup_timestamp(value, reference) ==
    (reference \div HourLen) * HourLen + (value % HourLen)

\* update_energy_offset, lines 219-229: the first reading becomes the
\* offset, and so does a reading below the previous one.
update_energy_offset(previous, offset, energy) ==
    IF previous = <<>> THEN energy
    ELSE IF energy < previous[1] THEN energy ELSE offset

\* promote_telemetry: a buffered entry holding both fragments is removed
\* and inserted into telemetry with no write status.
PromotedBuffer(buf, ts) ==
    IF buf[ts].sns # <<>> /\ buf[ts].sts # <<>> THEN Without(buf, {ts}) ELSE buf
PromotedTelemetry(buf, tel, ts) ==
    IF buf[ts].sns # <<>> /\ buf[ts].sts # <<>>
    THEN Put(tel, ts, [energy |-> buf[ts].sns[1] * 1000, status |-> <<>>])
    ELSE tel

DeviceEntry(op, ts, energy, offset, norm) ==
    [op |-> op, time |-> ts, energy |-> energy, offset |-> offset,
     norm |-> norm, before |-> 0, removed |-> 0, panicked |-> FALSE,
     value |-> 0]

\* The sweep panicked: the thread that called it has unwound.
Panicked == \E i \in 1..Len(device_log) : device_log[i].panicked

\* update_with_sns_telemetry, lines 248-264.
DeviceSns(value, energy) ==
    LET off == update_energy_offset(reported_energy_lifetime,
                                    energy_lifetime_offset, energy)
        ts == fixup_timestamp(value, now)
        buf == Put(telemetry_buffer, ts,
                   [EntryOf(telemetry_buffer, ts) EXCEPT
                       !.sns = <<energy - off>>])
    IN /\ ~Panicked
       /\ energy_lifetime_offset' = off
       /\ reported_energy_lifetime' = <<energy>>
       /\ telemetry_buffer' = PromotedBuffer(buf, ts)
       /\ telemetry' = PromotedTelemetry(buf, telemetry, ts)
       /\ device_log' = Append(device_log,
             DeviceEntry("sns", ts, energy, off, energy - off))
       /\ UNCHANGED <<power_state, now>>

\* update_with_sts_telemetry, lines 266-280.
DeviceSts(value, state) ==
    LET ts == fixup_timestamp(value, now)
        buf == Put(telemetry_buffer, ts,
                   [EntryOf(telemetry_buffer, ts) EXCEPT !.sts = <<value>>])
    IN /\ ~Panicked
       /\ power_state' = <<state>>
       /\ telemetry_buffer' = PromotedBuffer(buf, ts)
       /\ telemetry' = PromotedTelemetry(buf, telemetry, ts)
       /\ device_log' = Append(device_log, DeviceEntry("sts", ts, 0, 0, 0))
       /\ UNCHANGED <<reported_energy_lifetime, energy_lifetime_offset, now>>

\* clear_stale_buffered_telemetry, lines 282-288: entries older than
\* now - age are dropped and `len() - before` is returned, a usize
\* subtraction.  When it goes below zero a build with overflow checks
\* panics and a build without them wraps.
StaleKeysInclusive(buf, threshold) == {ts \in DOMAIN buf : ~(ts > threshold)}
StaleKeys(buf, threshold) == {ts \in DOMAIN buf : ~(ts >= threshold)}
SweepReturn(after, before) ==
    IF after >= before THEN after - before
    ELSE UsizeModulus - (before - after)

ClearStale(age) ==
    LET stale == StaleKeys(telemetry_buffer, now - age)
        before == Cardinality(DOMAIN telemetry_buffer)
        after == before - Cardinality(stale)
    IN /\ ~Panicked
       /\ telemetry_buffer' = Without(telemetry_buffer, stale)
       /\ \E panics \in IF after >= before THEN {FALSE} ELSE BOOLEAN :
             device_log' = Append(device_log,
                 [DeviceEntry("sweep", now - age, 0, 0, 0) EXCEPT
                     !.before = before,
                     !.removed = Cardinality(stale),
                     !.panicked = panics,
                     !.value = IF panics THEN 0
                               ELSE SweepReturn(after, before)])
       /\ UNCHANGED <<telemetry, reported_energy_lifetime,
                      energy_lifetime_offset, power_state, now>>

DeviceSensorMessage ==
    /\ Len(device_log) < MaxDeviceOps
    /\ \E value \in DeviceTimes, energy \in DeviceEnergies :
          DeviceSns(value, energy)
    /\ UNCHANGED <<wvars, pvars, ivars, rvars, fvars>>

DeviceStateMessage ==
    /\ Len(device_log) < MaxDeviceOps
    /\ \E value \in DeviceTimes, state \in {"On", "Off"} :
          DeviceSts(value, state)
    /\ UNCHANGED <<wvars, pvars, ivars, rvars, fvars>>

DeviceSweep ==
    /\ Len(device_log) < MaxDeviceOps
    /\ \E age \in Ages : ClearStale(age)
    /\ UNCHANGED <<wvars, pvars, ivars, rvars, fvars>>

\* now_utc() moves on.
ClockAdvance ==
    /\ \E n \in ClockValues : n > now /\ now' = n
    /\ UNCHANGED <<telemetry_buffer, telemetry, reported_energy_lifetime,
                   energy_lifetime_offset, power_state, device_log>>
    /\ UNCHANGED <<wvars, pvars, ivars, rvars, fvars>>

DeviceNext ==
    \/ DeviceSensorMessage
    \/ DeviceStateMessage
    \/ DeviceSweep
    \/ ClockAdvance

DeviceSpec == PlugInit /\ [][DeviceNext]_vars

\* ------------------------------------------- the normalizers side by side
\* The same counter reading is given to the pulse-meter arm, to a smart
\* plug (as a sensor fragment, never out of order) and to a TasmotaDevice.
Observe ==
    /\ Len(impulse_log) < MaxObservations
    /\ \E raw \in Energies :
          /\ ImpulseMessage(raw)
          /\ SensorFragment(MaxTime, raw)
          /\ DeviceSns(MaxTime, raw)
    /\ UNCHANGED <<wvars, rvars, fvars>>

NormSpec == PlugInit /\ [][Observe]_vars

\* --------------------------------------------------------- the swarm
(***************************************************************************)
(* SmartPlugSwarm::handle_telemetry (smartplugs/mod.rs:55-135) with the    *)
(* topic index, for any topic below the subscription tasmota/tele/#.  A    *)
(* topic or a device name is the sequence of the pieces it is made of:     *)
(* the prefix, the three suffixes and pieces that contain none of them,    *)
(* so that the string operations of HomeTasmotaTopicScheme act on whole    *)
(* pieces.  A plug is the record of the SmartPlug fields.                  *)
(***************************************************************************)

Prefix == "tasmota/tele/"

\* format!("tasmota/tele/{}/SENSOR", name) and its two siblings.
sensor_telemetry_topic(name) == <<Prefix>> \o name \o <<"/SENSOR">>
StateTopicNoSlash(name) == <<Prefix>> \o name \o <<"STATE">>
state_telemetry_topic(name) == <<Prefix>> \o name \o <<"/STATE">>
lwt_topic(name) == <<Prefix>> \o name \o <<"/LWT">>

\* telemetry_type: ends_with, in this order.
telemetry_type(topic) ==
    IF topic = <<>> THEN "None"
    ELSE CASE topic[Len(topic)] = "/SENSOR" -> "Sensor"
           [] topic[Len(topic)] = "/STATE" -> "State"
           [] topic[Len(topic)] = "/LWT" -> "Lwt"
           [] OTHER -> "None"

\* str::trim_start_matches / trim_end_matches: the piece is removed as
\* often as it is there.
RECURSIVE TrimStart(_, _)
TrimStart(topic, piece) ==
    IF topic # <<>> /\ Head(topic) = piece THEN TrimStart(Tail(topic), piece)
    ELSE topic

RECURSIVE TrimEnd(_, _)
TrimEnd(topic, piece) ==
    IF topic # <<>> /\ topic[Len(topic)] = piece
    THEN TrimEnd(SubSeq(topic, 1, Len(topic) - 1), piece)
    ELSE topic

\* extract_device_name: always Some(..), of what the four trims leave.
extract_device_name(topic) ==
    TrimEnd(TrimEnd(TrimEnd(TrimStart(topic, Prefix), "/SENSOR"), "/STATE"),
            "/LWT")

\* The topics messages arrive on in a run.
Topics ==
    {<<Prefix, "plug", "/SENSOR">>,
     <<Prefix, "plug", "/STATE">>,
     <<Prefix, "plug", "/LWT">>,
     <<Prefix, "plug">>,
     <<Prefix, "plug", "/SENSOR", "/SENSOR">>,
     <<Prefix, "plug", "/LWT", "/LWT">>,
     <<Prefix>>}

\* The payloads of a run: a fragment has the time field `time` (seconds)
\* and reaches the collector at once or DriftLimit + 1 ms later.
BadPayload == [ok |-> FALSE, time |-> 0, energy |-> 0, late |-> FALSE]

PayloadsFor(kind) ==
    CASE kind = "Sensor" ->
            {[ok |-> TRUE, time |-> t, energy |-> e, late |-> l] :
                t \in {1, MaxTime}, e \in {0, MaxEnergy}, l \in BOOLEAN}
            \cup {BadPayload}
      [] kind = "State" ->
            {[ok |-> TRUE, time |-> t, energy |-> 0, late |-> l] :
                t \in {1, MaxTime}, l \in BOOLEAN}
            \cup {BadPayload}
      [] kind = "Lwt" ->
            {[ok |-> TRUE, time |-> 0, energy |-> 0, late |-> FALSE],
             BadPayload}
      [] OTHER -> {[ok |-> TRUE, time |-> 0, energy |-> 0, late |-> FALSE]}

ArrivalOf(payload) ==
    payload.time * 1000 + (IF payload.late THEN DriftLimit + 1 ELSE 0)

\* SmartPlug::new.
NewPlug ==
    [raw_telemetry |-> [t \in Times |-> NoEntry], lwt |-> <<>>,
     last_energy |-> <<>>, energy_offset |-> 0]

\* The SmartPlug methods on a plug record.
append_sensor_telemetry(plug, t, e) ==
    LET discard == Discards(plug.raw_telemetry, t)
    IN IF discard
       THEN [plug EXCEPT
               !.last_energy = LastEnergyOnAppend(discard, @, e)]
       ELSE [plug EXCEPT
               !.energy_offset = OffsetAfter(plug.last_energy, @, e),
               !.last_energy = LastEnergyOnAppend(discard, @, e),
               !.raw_telemetry = SnsStored(@, t, e)]

append_state_telemetry(plug, t) ==
    [plug EXCEPT !.raw_telemetry = StsStored(@, t)]

set_lwt(plug, payload) == [plug EXCEPT !.lwt = <<payload>>]

\* create_new_smartplug, lines 27-53: the topics of a plug of that name
\* are removed from the index, the three topics of the new plug are
\* inserted, and the new plug takes the name.
RegisteredTopicsNoLwt(name) ==
    {sensor_telemetry_topic(name), state_telemetry_topic(name)}
RegisteredTopics(name) ==
    {sensor_telemetry_topic(name), state_telemetry_topic(name),
     lwt_topic(name)}

CreatedIndex(plugs, index, name) ==
    LET removed == IF name \in DOMAIN plugs
                   THEN {sensor_telemetry_topic(name),
                         state_telemetry_topic(name), lwt_topic(name)}
                   ELSE {}
        kept == Without(index, removed)
    IN [t \in DOMAIN kept \cup RegisteredTopics(name) |->
          IF t \in RegisteredTopics(name) THEN name ELSE kept[t]]

CreatedPlugs(plugs, name) == Put(plugs, name, NewPlug)

\* handle_telemetry.  Lines 60-73: the topic is looked up and, on a miss,
\* a plug of the extracted name is created.  Lines 85-102: the payload is
\* decoded by the kind of the topic and given to the plug; a payload that
\* does not decode returns the error there.  Lines 104-134: a matched
\* pair is removed, made into a record with odt = its key and handed to
\* write_with.
HandleTelemetry ==
    /\ Len(swarm_log) < MaxRegMessages
    /\ \E topic \in Topics :
        \E payload \in PayloadsFor(telemetry_type(topic)) :
          LET hit == topic \in DOMAIN telemetry_map
              name == IF hit THEN telemetry_map[topic]
                      ELSE extract_device_name(topic)
              plugs1 == IF hit THEN smartplugs
                        ELSE CreatedPlugs(smartplugs, name)
              index1 == IF hit THEN telemetry_map
                        ELSE CreatedIndex(smartplugs, telemetry_map, name)
              kind == telemetry_type(topic)
              plug == plugs1[name]
              plug2 == CASE kind = "Sensor" ->
                              append_sensor_telemetry(plug, payload.time,
                                                      payload.energy)
                         [] kind = "State" ->
                              append_state_telemetry(plug, payload.time)
                         [] kind = "Lwt" -> set_lwt(plug, "Online")
                         [] OTHER -> plug
              m == Matched(plug2.raw_telemetry)
              emit == IF m = {} THEN <<>>
                      ELSE <<generate_telemetry(Min(m),
                                plug2.raw_telemetry[Min(m)].sns[1],
                                plug2.raw_telemetry[Min(m)].sts[1],
                                plug2.energy_offset)>>
              plug3 == IF m = {} THEN plug2
                       ELSE [plug2 EXCEPT
                               !.raw_telemetry = RemoveKey(@, Min(m))]
          IN /\ telemetry_map' = index1
             /\ smartplugs' = IF payload.ok THEN Put(plugs1, name, plug3)
                              ELSE plugs1
             /\ swarm_log' = Append(swarm_log,
                   [topic |-> topic, kind |-> kind, payload |-> payload,
                    arrival |-> ArrivalOf(payload),
                    hit |-> hit, name |-> name,
                    created |-> ~hit,
                    replaced |-> ~hit /\ name \in DOMAIN smartplugs,
                    ret |-> IF payload.ok THEN "Ok" ELSE "Err",
                    emit |-> IF payload.ok THEN emit ELSE <<>>])
    /\ UNCHANGED <<wvars, pvars, ivars, dvars, fvars>>

RegistrySpec == PlugInit /\ [][HandleTelemetry]_vars

\* ------------------------------------------------ the control loop of main
(***************************************************************************)
(* main.rs:101-143: one select! over the impulse subscription, the tasmota *)
(* subscription and ctrl-c.  The swarm is one plug here, handled as in     *)
(* PlugSpec.  write_with fails once the task that holds the Receiver has   *)
(* stopped (buffered.rs:59-62).                                            *)
(***************************************************************************)

MainEntry(arm, error) == [arm |-> arm, error |-> error]

\* What one handle_telemetry call did to the plug.
PlugStep ==
    \/ \E kind \in {"Sensor", "State", "Lwt"} : Malformed(kind)
    \/ \E t \in Times, e \in Energies : SensorFragment(t, e)
    \/ \E t \in Times : StateFragment(t)
    \/ \E payload \in {"Online", "Offline"} : LwtMessage(payload)

\* The error handle_telemetry returned, "none" for Ok: a payload that did
\* not decode (mod.rs:87-96) or a record that write_with refused
\* (mod.rs:107-131).
TelemetryError(m) ==
    IF m.ret = "Err" THEN "payload"
    ELSE IF m.emit # <<>> /\ writer_task = "stopped" THEN "queue"
    ELSE "none"

\* Lines 131-136: an error of handle_telemetry is logged and the loop
\* goes round again.
MainTasmota ==
    /\ main_pc = "loop"
    /\ Len(main_log) < MaxMainSteps
    /\ PlugStep
    /\ main_log' = Append(main_log,
          MainEntry("tasmota", TelemetryError(log'[Len(log')])))
    /\ UNCHANGED <<main_pc, writer_task>>
    /\ UNCHANGED <<wvars, ivars, dvars, rvars, tvars, gvars>>

\* Lines 104-130: a payload that does not parse is logged and skipped
\* with `continue`; otherwise the context is created or adjusted, the
\* record is handed to write_with, whose error `?` returns from main, and
\* previous_count is updated after it.
MainImpulse ==
    /\ main_pc = "loop"
    /\ Len(main_log) < MaxMainSteps
    /\ \/ /\ main_log' = Append(main_log, MainEntry("impulse", "payload"))
          /\ UNCHANGED <<main_pc, ivars>>
       \/ \E count \in Energies :
            IF writer_task = "stopped"
            THEN LET ctx == ContextFor(impulse_context, count)
                 IN /\ impulse_context' =
                         <<[ctx EXCEPT !.offset =
                              ImpulseOffset(count, ctx.previous_count,
                                            ctx.offset)]>>
                    /\ impulse_log' = impulse_log
                    /\ main_pc' = "failed"
                    /\ main_log' = Append(main_log,
                                          MainEntry("impulse", "queue"))
            ELSE /\ ImpulseMessage(count)
                 /\ main_pc' = main_pc
                 /\ main_log' = Append(main_log,
                                       MainEntry("impulse", "none"))
    /\ UNCHANGED writer_task
    /\ UNCHANGED <<wvars, pvars, dvars, rvars, tvars, gvars>>

\* Lines 137-141: ctrl-c breaks out of the loop.
CtrlC ==
    /\ main_pc = "loop"
    /\ main_pc' = "stopped"
    /\ main_log' = Append(main_log, MainEntry("ctrl_c", "none"))
    /\ UNCHANGED writer_task
    /\ UNCHANGED <<wvars, pvars, ivars, dvars, rvars, tvars, gvars>>

\* The spawned writer task ends while main still holds its Client: it
\* returned an error (util/mod.rs:45) or panicked, and its Receiver is
\* dropped.
WriterTaskStops ==
    /\ main_pc = "loop"
    /\ writer_task = "running"
    /\ writer_task' = "stopped"
    /\ UNCHANGED <<main_pc, main_log>>
    /\ UNCHANGED <<wvars, pvars, ivars, dvars, rvars, tvars, gvars>>

MainNext ==
    \/ MainTasmota
    \/ MainImpulse
    \/ CtrlC
    \/ WriterTaskStops

\* Messages that have arrived are handled: the loop does not stop taking
\* them while it runs.
MainFairness == WF_vars(MainTasmota) /\ WF_vars(MainImpulse)

MainSpec == PlugInit /\ [][MainNext]_vars /\ MainFairness

\* ------------------------------------------------ the topic scheme alone
(***************************************************************************)
(* The generators, telemetry_type and extract_device_name applied to one   *)
(* device name.  A name is a sequence of pieces; the pieces are texts of   *)
(* which none is a part of another, so that ends_with and the trims see    *)
(* whole pieces.                                                           *)
(***************************************************************************)

NamePieces == {"plug", "/", "/SENSOR", "/STATE", "/LWT", Prefix}

DeviceNames == UNION {[1..n -> NamePieces] : n \in 0..MaxNameLen}

TopicFor(kind, name) ==
    CASE kind = "Sensor" -> sensor_telemetry_topic(name)
      [] kind = "State" -> state_telemetry_topic(name)
      [] kind = "Lwt" -> lwt_topic(name)

GenerateTopic ==
    /\ generated = "none"
    /\ \E kind \in {"Sensor", "State", "Lwt"} :
          /\ generated' = kind
          /\ topic_text' = TopicFor(kind, device_name)
    /\ UNCHANGED <<device_name, classified, extracted>>
    /\ UNCHANGED <<wvars, pvars, ivars, dvars, rvars, gvars, mvars>>

ClassifyTopic ==
    /\ generated # "none"
    /\ classified = <<>>
    /\ classified' = <<telemetry_type(topic_text)>>
    /\ UNCHANGED <<device_name, generated, topic_text, extracted>>
    /\ UNCHANGED <<wvars, pvars, ivars, dvars, rvars, gvars, mvars>>

ExtractName ==
    /\ generated # "none"
    /\ extracted = <<>>
    /\ extracted' = <<extract_device_name(topic_text)>>
    /\ UNCHANGED <<device_name, generated, topic_text, classified>>
    /\ UNCHANGED <<wvars, pvars, ivars, dvars, rvars, gvars, mvars>>

TopicInit ==
    /\ BaseInit /\ sink_ok /\ DriftIdle /\ MainIdle
    /\ device_name \in DeviceNames
    /\ generated = "none"
    /\ topic_text = <<>>
    /\ classified = <<>>
    /\ extracted = <<>>

TopicNext ==
    \/ GenerateTopic
    \/ ClassifyTopic
    \/ ExtractName

TopicSpec == TopicInit /\ [][TopicNext]_vars

\* ------------------------------------------- generate_telemetry alone
(***************************************************************************)
(* The timestamp choice of generate_telemetry (smartplug.rs:151-163) for   *)
(* one pair of millisecond timestamps.                                     *)
(***************************************************************************)

\* state.time is a whole second; odt lies before or after it by 0 ms or by
\* DriftLimit - MaxSkew .. DriftLimit + MaxSkew ms.
DeviceMillis == {(DriftLimit \div 1000 + 1 + t) * 1000 : t \in 0..MaxTime}
Drifts == {0} \cup {sign * (DriftLimit + k) : sign \in {-1, 1}, k \in -MaxSkew..MaxSkew}

GenerateTimestamp ==
    /\ picked = <<>>
    /\ picked' = <<PickTimestamp(machine_ms, device_ms)>>
    /\ UNCHANGED <<machine_ms, device_ms>>
    /\ UNCHANGED <<wvars, pvars, ivars, dvars, rvars, tvars, mvars>>

DriftInit ==
    /\ BaseInit /\ sink_ok /\ TopicIdle /\ MainIdle
    /\ device_ms \in DeviceMillis
    /\ \E d \in Drifts : machine_ms = device_ms + d
    /\ picked = <<>>

DriftSpec == DriftInit /\ [][GenerateTimestamp]_vars


\* ------------------------------------------------------------- claims

\* C1: after a sink write of a batch fails, the payload of the next flush
\* begins with exactly the records of the failed batch, in their submission
\* order, ahead of every record received later.
C1_RetryKeepsOrder ==
    (pc = "write" /\ last_failed # <<>>) => IsPrefix(last_failed, IdSeq(in_progress))

\* C2: the records of all successful sink writes, concatenated in write
\* order, follow the submission order: none reordered, none delivered twice.
C2_DeliveredInSubmissionOrder ==
    \A i, j \in DOMAIN delivered : i < j => delivered[i] < delivered[j]


\* C3: the status cell of every record only moves forward along
\* Init -> Buffered -> Accepted; a failed flush never moves a record from
\* Buffered back to Init.
C3_StatusNeverRegresses ==
    [][\A r \in Ids : StatusRank(status'[r]) >= StatusRank(status[r])]_vars

C3_Witness ==
    /\ last_failed # <<>>
    /\ pc = "select"
    /\ \A i \in DOMAIN last_failed : status[last_failed[i]] = "Buffered"
    /\ \E r \in Ids : status[r] = "Accepted"

\* C4: a record's status is Accepted if and only if a sink write whose
\* payload included it has returned success; the records of a successful
\* batch are Accepted and no longer pending.
C4_AcceptedIffDelivered ==
    /\ \A r \in Ids : status[r] = "Accepted" <=> r \in Range(delivered)
    /\ \A r \in Range(delivered) :
          r \notin IdsOf(buffers) \cup IdsOf(in_progress) \cup IdsOf(channel)
                   \cup IdsOf(sending)

C4_Witness ==
    /\ Len(delivered) >= 2
    /\ ever_failed
    /\ buffers # <<>>

\* C5: a failed sink write drops nothing and changes no status: afterwards
\* every record of the failed batch is pending again with status Buffered,
\* every record that was pending outside the batch is still pending, and
\* `lines` is unchanged.
C5_FailedWriteKeepsAll ==
    [][(pc = "write" /\ ~sink_ok /\ pc' # "write")
        => /\ IdsOf(buffers') = IdsOf(in_progress) \cup IdsOf(buffers)
           /\ Len(buffers') = Len(in_progress) + Len(buffers)
           /\ \A r \in IdsOf(in_progress) : status'[r] = "Buffered"
           /\ status' = status
           /\ lines' = lines]_vars

C5_Witness ==
    /\ last_failed # <<>>
    /\ pc = "select"
    /\ Len(buffers) > Len(last_failed)
    /\ Len(last_failed) >= 2


\* C6: at most one batch is outstanding at the sink: no sink write starts
\* while another has not returned, and no record is received from the
\* submission queue while a write is in flight.
C6_OneBatchOutstanding ==
    /\ [](in_flight <= 1)
    /\ [][in_flight >= 1 => IsPrefix(channel, channel')]_vars

C6_Witness ==
    /\ in_flight = 1
    /\ Len(channel) = channel_len
    /\ buffers # <<>>

\* C7: while sink writes keep failing and producers keep submitting, the
\* number of records in `buffers` stays bounded, ingest being slowed through
\* the full submission queue: pending records that each hold a line never
\* exceed a threshold batch plus the capacity of the queue.
C7_PendingBounded ==
    (\A i \in DOMAIN buffers : buffers[i].nlines >= 1)
        => Len(buffers) <= max_lines + channel_len

\* The ids of a set in ascending (submission) order.
RECURSIVE Ascending(_)
Ascending(S) ==
    IF S = {} THEN <<>>
    ELSE LET m == CHOOSE x \in S : \A y \in S : x <= y
         IN <<m>> \o Ascending(S \ {m})

BufferedIds == {r \in Ids : status[r] = "Buffered"}

\* C8: records submitted below the flush threshold are written by the next
\* timer tick in exactly one sink write that holds all of them in submission
\* order (the sink succeeding), and a tick with nothing pending makes no
\* sink write.
C8_TickFlushesAllOnce ==
    /\ (pc = "write" /\ trigger = "tick") => in_progress # <<>> /\ in_flight = 1
    /\ (pc = "write" /\ trigger = "tick" /\ ~ever_failed /\ lines < max_lines)
          => /\ IdSeq(in_progress) = Ascending(BufferedIds)
             /\ buffers = <<>>
    /\ (pc = "select" /\ trigger = "tick" /\ ~ever_failed)
          => buffers = <<>> /\ BufferedIds = {}

C8_Witness ==
    /\ pc = "write"
    /\ trigger = "tick"
    /\ ~ever_failed
    /\ lines < max_lines
    /\ Len(in_progress) >= 2
    /\ delivered # <<>>

\* C9: if the submission queue stays open and from some point on every sink
\* write succeeds, every record whose status reached Buffered eventually
\* reaches Accepted.
C9_BufferedEventuallyAccepted ==
    (<>[][~(pc = "write" /\ ~sink_ok /\ pc' # "write")]_vars /\ []open)
        => \A r \in Ids : (status[r] = "Buffered") ~> (status[r] = "Accepted")

C9_Witness ==
    /\ open
    /\ ever_failed
    /\ last_failed = <<>>
    /\ Len(delivered) >= 2
    /\ BufferedIds = {}

\* What holds once the None arm has run (shutdown), used by C10.
C10_AfterClosure ==
    /\ shutdown =>
          /\ ~open
          /\ channel = <<>>
          /\ \A r \in 1..nsub : status[r] \in {"Buffered", "Accepted"}
          /\ pc \in {"write", "done"}
          /\ final_writes = 1
    /\ ~shutdown => final_writes = 0 /\ pc # "done"
    /\ pc = "done" => ret = "Ok" /\ in_flight = 0
    /\ pc # "done" => ret = "none"

\* C10: once the submission queue is closed the task receives every record
\* still queued, then makes exactly one final flush attempt and returns Ok,
\* whether or not that sink write succeeds; it does not retry after closure.
C10_OneFinalFlush == []C10_AfterClosure /\ (~open ~> pc = "done")

C10_Witness ==
    /\ pc = "done"
    /\ nsub = LiveRecords
    /\ last_failed # <<>>
    /\ buffers # <<>>


\* C11: the writer flushes as soon as the accumulated line count of the
\* pending records reaches max_lines: when receiving a record brings `lines`
\* to max_lines or more, a sink write is issued before any further record is
\* received from the queue.
C11_FlushAtLineLimit ==
    [][(pc = "select" /\ Len(channel') < Len(channel) /\ lines' >= max_lines)
        => /\ pc' = "write"
           /\ in_flight' = in_flight + 1
           /\ in_progress' # <<>>
           /\ total_lines' >= max_lines]_vars

C11_Witness ==
    /\ pc = "write"
    /\ trigger = "recv"
    /\ lines = max_lines
    /\ Len(in_progress) >= 2
    /\ channel # <<>>

\* C12: the writer flushes as soon as the accumulated byte size of the
\* pending records reaches the byte threshold, even when the accumulated
\* line count is still below max_lines: a record whose receipt brings the
\* pending bytes to ByteLimit or more is followed at once by a sink write.
C12_FlushAtByteLimit ==
    [][(pc = "select" /\ Len(channel') < Len(channel)
           /\ SumBytes(buffers \o <<Head(channel)>>) >= ByteLimit)
        => pc' = "write"]_vars

\* The ids a submitted record can be found at.
C13_Held ==
    IdsOf(sending) \cup IdsOf(channel) \cup IdsOf(buffers)
        \cup IdsOf(in_progress) \cup Range(delivered)

\* C13: write_with on a full submission queue suspends the caller until
\* space frees: the queue never holds more than channel_len records, no
\* submitted record is dropped and no call returns an error, a call on a
\* full queue leaves the queue as it is and holds the record, a held record
\* is enqueued only once there is room, behind the records queued before
\* it, and the status cell of a record not yet received is at Init.
C13_SuspendsOnFullQueue ==
    /\ [](/\ Len(channel) <= channel_len
          /\ wres # "Err"
          /\ \A r \in 1..nsub : r \in C13_Held
          /\ \A r \in IdsOf(sending) \cup IdsOf(channel) : status[r] = "Init")
    /\ [][/\ (nsub' = nsub + 1 /\ Len(channel) >= channel_len)
              => /\ channel' = channel
                 /\ IdsOf(sending') = {nsub'}
                 /\ wres' = "pending"
          /\ (sending # <<>> /\ sending' = <<>>)
              => /\ Len(channel) < channel_len
                 /\ channel' = Append(channel, sending[1])
                 /\ wres' = "Ok"]_vars

C13_Witness ==
    /\ sending # <<>>
    /\ Len(channel) = channel_len
    /\ buffers # <<>>
    /\ ~sink_ok

EmitsOf(T) ==
    {i \in 1..Len(log) : log[i].emit # <<>> /\ log[i].emit[1].key = T}

\* A well-formed fragment of the kind with timestamp T has been received.
Received(kind, T) ==
    \E i \in 1..Len(log) :
        /\ log[i].kind = kind
        /\ log[i].time = T
        /\ log[i].outcome \in {"stored", "discarded"}

\* ... and was put into raw_telemetry.
Stored(kind, T) ==
    \E i \in 1..Len(log) :
        log[i].kind = kind /\ log[i].time = T /\ log[i].outcome = "stored"

C16_AtMostOncePerTimestamp ==
    \A T \in Times : Cardinality(EmitsOf(T)) <= 1

\* The newest timestamp promoted before the i-th message, 0 when none.
C17_NewestPromoted(i) ==
    Max({0} \cup {log[j].emit[1].key :
                    j \in {k \in 1..(i - 1) : log[k].emit # <<>>}})

\* C17: a sensor or status fragment is discarded as out-of-order exactly
\* when its timestamp is strictly older than the newest timestamp promoted
\* so far; otherwise it is stored in raw_telemetry.
C17_DiscardIffOlderThanPromoted ==
    \A i \in 1..Len(log) :
        log[i].outcome \in {"stored", "discarded"}
            => /\ log[i].outcome = "discarded"
                    <=> log[i].time < C17_NewestPromoted(i)
               /\ log[i].outcome = "stored"
                    <=> log[i].time >= C17_NewestPromoted(i)

\* C18: a message whose sensor fragment append_sensor_telemetry discards as
\* out-of-order leaves last_energy, energy_offset and raw_telemetry as they
\* were and emits no completed record.
C18_DiscardChangesNothing ==
    [][(Len(log') = Len(log) + 1 /\ log'[Len(log')].outcome = "discarded")
        => /\ last_energy' = last_energy
           /\ energy_offset' = energy_offset
           /\ raw_telemetry' = raw_telemetry
           /\ log'[Len(log')].emit = <<>>]_vars

C18_Witness ==
    /\ log # <<>>
    /\ log[Len(log)].outcome = "discarded"
    /\ last_energy # <<>>
    /\ log[Len(log)].energy < last_energy[1]
    /\ \E T \in Times : EmitsOf(T) # {}

RECURSIVE C20_Offset(_, _)
C20_Offset(raws, i) ==
    IF i = 1 THEN raws[1]
    ELSE IF raws[i] < raws[i - 1] THEN raws[i]
    ELSE C20_Offset(raws, i - 1)

\* The sensor fragments the normalizer has observed, in order.
C20_Observed ==
    SelectSeq(log, LAMBDA m : m.kind = "Sensor" /\ m.outcome = "stored")

\* C20: for the raw lifetime energy readings raw_1..raw_n a plug observes,
\* the normalized value of the i-th is raw_i - offset_i with
\* offset_1 = raw_1 and offset_i = raw_i if raw_i < raw_(i-1), else
\* offset_(i-1).
C20_NormalizedIsRawMinusOffset ==
    LET obs == C20_Observed
        raws == [i \in 1..Len(obs) |-> obs[i].energy]
    IN \A i \in 1..Len(obs) : obs[i].norm = raws[i] - C20_Offset(raws, i)

\* What each normalizer made of the readings it was given, reading by
\* reading: the raw value, the offset after it and the normalized value.
ImpulseSeries ==
    [i \in 1..Len(impulse_log) |->
        [raw |-> impulse_log[i].count, offset |-> impulse_log[i].offset,
         norm |-> impulse_log[i].energy]]

PlugSeries ==
    LET obs == SelectSeq(log, LAMBDA m : m.kind = "Sensor"
                                        /\ m.outcome = "stored")
    IN [i \in 1..Len(obs) |->
          [raw |-> obs[i].energy, offset |-> obs[i].energy - obs[i].norm,
           norm |-> obs[i].norm]]

DeviceSeries ==
    LET obs == SelectSeq(device_log, LAMBDA m : m.op = "sns")
    IN [i \in 1..Len(obs) |->
          [raw |-> obs[i].energy, offset |-> obs[i].offset,
           norm |-> obs[i].norm]]

AllSeries == {ImpulseSeries, PlugSeries, DeviceSeries}

C22_FirstNormalizedIsZero ==
    \A ser \in AllSeries : ser # <<>> => ser[1].norm = 0

\* C23: fed the same sequence of raw counter values, the pulse-meter
\* normalizer, the SmartPlug and the TasmotaDevice produce the same
\* sequence of offsets and of normalized values.
C23_SameOffsetsAndValues ==
    (/\ [i \in DOMAIN ImpulseSeries |-> ImpulseSeries[i].raw]
           = [i \in DOMAIN PlugSeries |-> PlugSeries[i].raw]
     /\ [i \in DOMAIN PlugSeries |-> PlugSeries[i].raw]
           = [i \in DOMAIN DeviceSeries |-> DeviceSeries[i].raw])
        => (ImpulseSeries = PlugSeries /\ PlugSeries = DeviceSeries)

\* C30: clear_stale_buffered_telemetry returns the number of entries it
\* removed from the telemetry buffer: 0 when none is stale and k when k
\* are removed.
C30_SweepReturnsRemoved ==
    \A i \in 1..Len(device_log) :
        device_log[i].op = "sweep"
            => /\ ~device_log[i].panicked
               /\ device_log[i].value = device_log[i].removed

\* C24: a completed record whose device timestamp differs from the arrival
\* time of the message that completed it by more than DriftLimit ms is
\* emitted with the arrival timestamp, and otherwise with the device
\* timestamp.
C24_ArrivalTimestampOnDrift ==
    \A i \in 1..Len(swarm_log) :
        swarm_log[i].emit # <<>> =>
            LET rec == swarm_log[i].emit[1]
                device_timestamp == rec.key * 1000
                arrival == swarm_log[i].arrival
            IN rec.timestamp =
                 IF Abs(arrival - device_timestamp) > DriftLimit
                 THEN arrival ELSE device_timestamp

\* The three topics of the device named n.
CanonicalTopics(n) ==
    {<<Prefix>> \o n \o <<suffix>> : suffix \in {"/SENSOR", "/STATE", "/LWT"}}

\* C25: once a message on a topic t that missed the index has been
\* handled, the index maps the three topics of the extracted device to it
\* and t itself resolves through the index, so that every later message
\* on t finds the same device in the index and creates or replaces none.
C25_MissedTopicResolvesAfterwards ==
    /\ swarm_log # <<>> =>
          LET m == swarm_log[Len(swarm_log)]
          IN (m.created /\ m.name # <<>>) =>
               /\ \A t \in CanonicalTopics(m.name) \cup {m.topic} :
                     t \in DOMAIN telemetry_map /\ telemetry_map[t] = m.name
    /\ \A i \in 1..Len(swarm_log) : \A j \in (i + 1)..Len(swarm_log) :
          (/\ swarm_log[i].created
           /\ swarm_log[i].name # <<>>
           /\ swarm_log[j].topic = swarm_log[i].topic)
              => /\ swarm_log[j].hit
                 /\ ~swarm_log[j].created
                 /\ ~swarm_log[j].replaced
                 /\ swarm_log[j].name = swarm_log[i].name

\* C26: telemetry_map holds exactly the sensor, state and last-will topics
\* of the devices in smartplugs, each mapped to the name of its device.
C26_IndexIsTopicsOfPlugs ==
    /\ DOMAIN telemetry_map = UNION {CanonicalTopics(n) : n \in DOMAIN smartplugs}
    /\ \A n \in DOMAIN smartplugs : \A t \in CanonicalTopics(n) :
          telemetry_map[t] = n

C26_Witness ==
    /\ Cardinality(DOMAIN smartplugs) >= 2
    /\ \E i \in 1..Len(swarm_log) : swarm_log[i].replaced

\* C27: a message whose topic yields no device name makes handle_telemetry
\* return an error and leaves the registry as it was: no device created
\* or replaced, no index entry added, nothing handed to the writer.
C27_UnroutableIsError ==
    [][LET m == swarm_log'[Len(swarm_log')]
       IN (Len(swarm_log') = Len(swarm_log) + 1
             /\ extract_device_name(m.topic) = <<>>)
          => /\ m.ret = "Err"
             /\ smartplugs' = smartplugs
             /\ telemetry_map' = telemetry_map
             /\ m.emit = <<>>]_vars

\* C28: a sensor or status message whose payload does not decode returns
\* an error, leaves every registered device as it was (raw_telemetry,
\* last_energy, energy_offset, lwt) and hands nothing to the writer.
C28_MalformedChangesNoDevice ==
    [][LET m == swarm_log'[Len(swarm_log')]
       IN (Len(swarm_log') = Len(swarm_log) + 1
             /\ m.kind \in {"Sensor", "State"} /\ ~m.payload.ok)
          => /\ m.ret = "Err"
             /\ m.emit = <<>>
             /\ \A n \in DOMAIN smartplugs :
                   n \in DOMAIN smartplugs' /\ smartplugs'[n] = smartplugs[n]]_vars

C31_SweepRemovesExactlyStale ==
    [][(Len(device_log') = Len(device_log) + 1
          /\ device_log'[Len(device_log')].op = "sweep")
        => LET threshold == device_log'[Len(device_log')].time
               kept == {ts \in DOMAIN telemetry_buffer : ~(ts < threshold)}
           IN /\ DOMAIN telemetry_buffer' = kept
              /\ \A ts \in kept : telemetry_buffer'[ts] = telemetry_buffer[ts]
              /\ telemetry' = telemetry]_vars

C31_Witness ==
    /\ device_log # <<>>
    /\ device_log[Len(device_log)].op = "sweep"
    /\ device_log[Len(device_log)].removed >= 1
    /\ DOMAIN telemetry # {}

\* C34: the topic generated for a name n is "tasmota/tele/" followed by n
\* and by /SENSOR, /STATE or /LWT, and telemetry_type of it is the kind of
\* the generator that made it.
C34_GeneratedTopicsClassify ==
    /\ generated # "none" =>
          topic_text = <<"tasmota/tele/">> \o device_name \o
              <<CASE generated = "Sensor" -> "/SENSOR"
                  [] generated = "State" -> "/STATE"
                  [] generated = "Lwt" -> "/LWT">>
    /\ classified # <<>> => classified[1] = generated

C34_Witness ==
    /\ generated = "State"
    /\ classified = <<"State">>
    /\ Len(device_name) = MaxNameLen
    /\ device_name[Len(device_name)] = "/SENSOR"

\* C35: generate_telemetry returns the machine timestamp when it differs
\* from the device timestamp by more than 20,000 ms and the device
\* timestamp when the difference is 20,000 ms or less.
C35_DriftThreshold ==
    picked # <<>> =>
        LET difference == IF machine_ms >= device_ms
                          THEN machine_ms - device_ms
                          ELSE device_ms - machine_ms
        IN /\ difference > 20000 => picked[1] = machine_ms
           /\ difference <= 20000 => picked[1] = device_ms

C35_Witness ==
    /\ picked # <<>>
    /\ machine_ms = device_ms + 20000
    /\ picked[1] = device_ms

\* C40: extract_device_name of a topic generated for the name n is n.
C40_ExtractInvertsGenerators ==
    extracted # <<>> => extracted[1] = device_name

\* C36: no step of handle_telemetry replaces a registered plug: every
\* registered plug stays registered, and a message that missed the index
\* leaves each fragment a plug had buffered in place (unless that step
\* emitted it) and does not forget the plug's last reading.
C36_NeverReplacesRegistered ==
    [][Len(swarm_log') = Len(swarm_log) + 1 =>
        LET m == swarm_log'[Len(swarm_log')]
        IN \A n \in DOMAIN smartplugs :
             /\ n \in DOMAIN smartplugs'
             /\ ~m.hit =>
                  /\ \A t \in Keys(smartplugs[n].raw_telemetry) :
                        \/ t \in Keys(smartplugs'[n].raw_telemetry)
                        \/ m.emit # <<>> /\ m.emit[1].key = t
                  /\ smartplugs[n].last_energy # <<>>
                        => smartplugs'[n].last_energy # <<>>]_vars

\* The stored sensor fragment that the record emitted at log entry i was
\* made of: the latest one with the record's key.
C37_FragmentOf(i) ==
    LET T == log[i].emit[1].key
        js == {j \in 1..i : /\ log[j].kind = "Sensor"
                            /\ log[j].outcome = "stored"
                            /\ log[j].time = T}
    IN Max(js)

\* C37: the energy of a completed record is the raw energy of its sensor
\* fragment minus the offset in force when that fragment was received,
\* whatever sensor fragments arrived between the two.
C37_EnergyUsesOffsetAtArrival ==
    \A i \in 1..Len(log) :
        log[i].emit # <<>> =>
            log[i].emit[1].energy = log[C37_FragmentOf(i)].norm * 1000

\* C38: the sink write issued after the queue was seen closed takes every
\* pending record, and when the task has exited after a successful final
\* write no record is left at status Buffered.
C38_FinalFlushTakesAll ==
    /\ (pc = "write" /\ shutdown) => buffers = <<>>
    /\ (pc = "done" /\ last_failed = <<>>)
          => \A r \in Ids : status[r] # "Buffered"

\* C39: a sink write is under way only with at least one record in it,
\* whichever arm of the select! set the flush.
C39_NoEmptyWrite ==
    pc = "write" => in_progress # <<>>

\* C32: an entry of a plug's partial-fragment map does not stay there for
\* as long as the control loop runs: it is removed at some time, by its
\* match or by a sweep.
C32_PartialEntryEventuallyRemoved ==
    \A T \in Times :
        (T \in Keys(raw_telemetry))
            ~> (T \notin Keys(raw_telemetry) \/ main_pc # "loop")

\* C33: after a turn of the control loop that ended in a per-message
\* error the loop is still running.
C33_PerMessageErrorsIsolated ==
    \A i \in 1..Len(main_log) :
        main_log[i].error # "none" => (i < Len(main_log) \/ main_pc = "loop")

====
